---- MODULE Spec2Model ----
(***************************************************************************)
(* asyncudp: a UDP socket for asyncio (src/asyncudp/__init__.py).          *)
(*                                                                         *)
(* The module models _SocketProtocol (the queue of received packets and    *)
(* the one-slot error mailbox), Socket (close, sendto, recvfrom, the       *)
(* async-with pair) and the event loop that drives them: the reactor       *)
(* callbacks, the tasks suspended in recvfrom(), the 0.6 s timer of        *)
(* wait_for and task cancellation.                                         *)
(*                                                                         *)
(* asyncio is modelled by what its primitives do:                          *)
(*  - asyncio.Queue: put_nowait appends and wakes the first getter that is *)
(*    not done; get() on an empty queue parks a getter future and, when    *)
(*    the task is resumed, re-tests the queue; a getter that is cancelled  *)
(*    after it was woken passes the wake-up on to the next getter;         *)
(*  - asyncio.wait_for: the awaited get() runs in the calling task; when   *)
(*    the timer fires the task is cancelled at its suspension point and    *)
(*    the cancellation surfaces as TimeoutError (CPython 3.12 and later);  *)
(*  - a datagram transport: close() is idempotent and schedules            *)
(*    connection_lost once; no callback follows connection_lost and no     *)
(*    datagram is delivered once close() was called.                       *)
(* The event loop is single threaded: every action below is one            *)
(* uninterrupted run of a callback or of a task between two suspension     *)
(* points.                                                                 *)
(***************************************************************************)
EXTENDS Integers, Sequences, FiniteSets, TLC

\* ---------------------------------------------------------------- bounds
MaxEvents == 3      \* datagram_received and error_received callbacks in
                    \* one behaviour
MaxCalls == 2       \* recvfrom() calls in one behaviour
MaxSends == 1       \* sendto() calls in one behaviour

\* ---------------------------------------------------------------- values
Tasks == {"t1", "t2"}
Payloads == {"d1", "d2"}
Addrs == {"a1", "a2"}
Excs == {"e1", "e2"}

\* Python's None: the closure sentinel in the queue and the empty mailbox.
None == [tag |-> "None"]

\* The tuple (data, addr) that datagram_received enqueues.
Packet(data, addr) == [tag |-> "tuple", data |-> data, addr |-> addr]

\* An exception object handed to error_received.
Exc(name) == [tag |-> "exc", name |-> name]

\* class ClosedError(Exception)
ClosedError == [tag |-> "exc", name |-> "ClosedError"]

\* The datagrams the network delivers: two senders, each with its payload.
Datagrams == {<<"d1", "a1">>, <<"d2", "a2">>}

Packets == {Packet(d[1], d[2]) : d \in Datagrams}

\* sendto's addr when the caller omits it.
NoAddr == "None"
TransportErrors == {Exc(e) : e \in Excs}

\* Python truthiness of the mailbox content in `if self._error:`.
Truthy(x) == x # None

VARIABLES
    _packets,     \* _SocketProtocol._packets: the items of the asyncio.Queue
    _getters,     \* the queue's deque of parked getters, by task
    _error,       \* _SocketProtocol._error: the one-slot mailbox
    task,         \* per task: where it stands in recvfrom()
    made,         \* connection_made was called (create_socket returned)
    closing,      \* transport.close() was called
    lost,         \* connection_lost was called
    sent,         \* what the transport was handed by sendto
    scope,        \* the async-with block over the Socket
    closes,       \* Socket.close(): whether the user called it, and how
                  \* often __aexit__ did
    enqueued,     \* history: every item ever put in the queue, in order
    reported,     \* history: how often each exception was handed to
                  \* error_received
    outcomes,     \* history: the completions of recvfrom(), in order
    ncalls        \* history: recvfrom() calls made

vars == <<_packets, _getters, _error, task, made, closing, lost, sent,
          scope, closes, enqueued, reported, outcomes, ncalls>>

protoVars == <<_packets, _getters, _error, task>>
transportVars == <<made, closing, lost, sent>>
scopeVars == <<scope, closes>>
histVars == <<enqueued, reported, outcomes, ncalls>>

\* A task that is not inside recvfrom().
Idle == [pc |-> "idle", getter |-> "none", intr |-> "none"]

\* A task parked on a fresh getter future inside Queue.get().
Parked == [pc |-> "suspended", getter |-> "pending", intr |-> "none"]

Init ==
    /\ _packets = <<>>
    /\ _getters = <<>>
    /\ _error = None
    /\ task = [t \in Tasks |-> Idle]
    /\ made = FALSE
    /\ closing = FALSE
    /\ lost = FALSE
    /\ sent = <<>>
    /\ scope = [state |-> "none", path |-> "none"]
    /\ closes = [user |-> FALSE, aexit |-> 0]
    /\ enqueued = <<>>
    /\ reported = [e \in Excs |-> 0]
    /\ outcomes = <<>>
    /\ ncalls = 0

\* ------------------------------------------------------- asyncio.Queue

\* Queue._wakeup_next: pop getters from the left up to and including the
\* first one that is not done, and set that one's result.
RECURSIVE _wakeup_next(_, _)
_wakeup_next(waiters, tk) ==
    IF waiters = <<>>
    THEN [getters |-> waiters, task |-> tk]
    ELSE LET t == Head(waiters) IN
         IF tk[t].getter = "pending"
         THEN [getters |-> Tail(waiters),
               task |-> [tk EXCEPT ![t].getter = "result"]]
         ELSE _wakeup_next(Tail(waiters), tk)

\* A put_nowait on a queue that holds one element and drops what does not
\* fit.
put_nowait_bounded(item) ==
    LET w == _wakeup_next(_getters, task) IN
    /\ _packets' = IF _packets = <<>> THEN <<item>> ELSE _packets
    /\ _getters' = w.getters
    /\ task' = w.task
    /\ enqueued' = Append(enqueued, item)

\* Queue.put_nowait(item) on the unbounded queue.
put_nowait(item) ==
    LET w == _wakeup_next(_getters, task) IN
    /\ _packets' = Append(_packets, item)
    /\ _getters' = w.getters
    /\ task' = w.task
    /\ enqueued' = Append(enqueued, item)

\* ---------------------------------------------------- reactor callbacks

\* Sum of f over the set S.
RECURSIVE Sum(_, _)
Sum(f, S) ==
    IF S = {} THEN 0
    ELSE LET x == CHOOSE y \in S : TRUE IN f[x] + Sum(f, S \ {x})

\* error_received callbacks so far.
NReported == Sum(reported, Excs)

\* datagram_received callbacks so far.
NDatagrams == Len(SelectSeq(enqueued, LAMBDA x : x # None))

connection_made ==
    /\ ~made
    /\ made' = TRUE
    /\ UNCHANGED <<protoVars, closing, lost, sent, scopeVars, histVars>>

\* A connection_lost that records the loss and enqueues no sentinel.
connection_lost_silent ==
    /\ made /\ ~lost
    /\ lost' = TRUE
    /\ UNCHANGED <<protoVars, made, closing, sent, scopeVars, histVars>>

\* A datagram_received that puts the new packet in front of the queue.
datagram_received_front(data, addr) ==
    /\ made /\ ~closing /\ ~lost
    /\ NDatagrams + NReported < MaxEvents
    /\ _packets' = <<Packet(data, addr)>> \o _packets
    /\ _getters' = _wakeup_next(_getters, task).getters
    /\ task' = _wakeup_next(_getters, task).task
    /\ enqueued' = Append(enqueued, Packet(data, addr))
    /\ UNCHANGED <<_error, transportVars, scopeVars,
                   reported, outcomes, ncalls>>

connection_lost ==
    /\ made /\ ~lost
    /\ lost' = TRUE
    /\ put_nowait(None)
    /\ UNCHANGED <<_error, made, closing, sent, scopeVars,
                   reported, outcomes, ncalls>>

datagram_received(data, addr) ==
    /\ made /\ ~closing /\ ~lost
    /\ NDatagrams + NReported < MaxEvents
    /\ put_nowait(Packet(data, addr))
    /\ UNCHANGED <<_error, transportVars, scopeVars,
                   reported, outcomes, ncalls>>

\* An error_received that keeps an error that is still unconsumed.
error_received_first_wins(exc) ==
    /\ made /\ ~lost
    /\ NDatagrams + NReported < MaxEvents
    /\ _error' = IF Truthy(_error) THEN _error ELSE exc
    /\ reported' = [reported EXCEPT ![exc.name] = @ + 1]
    /\ UNCHANGED <<_packets, _getters, task, transportVars, scopeVars,
                   enqueued, outcomes, ncalls>>

\* An error_received that also wakes the first task waiting on the queue.
error_received_wakes(exc) ==
    LET w == _wakeup_next(_getters, task) IN
    /\ made /\ ~lost
    /\ NDatagrams + NReported < MaxEvents
    /\ _error' = exc
    /\ reported' = [reported EXCEPT ![exc.name] = @ + 1]
    /\ _getters' = w.getters
    /\ task' = w.task
    /\ UNCHANGED <<_packets, transportVars, scopeVars, enqueued, outcomes,
                   ncalls>>

\* An error_received that also treats the error as the end of the stream.
error_received_closes(exc) ==
    /\ made /\ ~lost
    /\ NDatagrams + NReported < MaxEvents
    /\ _error' = exc
    /\ reported' = [reported EXCEPT ![exc.name] = @ + 1]
    /\ put_nowait(None)
    /\ UNCHANGED <<transportVars, scopeVars, outcomes, ncalls>>

error_received(exc) ==
    /\ made /\ ~lost
    /\ NDatagrams + NReported < MaxEvents
    /\ _error' = exc
    /\ reported' = [reported EXCEPT ![exc.name] = @ + 1]
    /\ UNCHANGED <<_packets, _getters, task, transportVars, scopeVars,
                   enqueued, outcomes, ncalls>>

\* ----------------------------------------------------------- transport

\* transport.close(): idempotent; connection_lost follows later, once.
transport_close ==
    closing' = TRUE

\* transport.sendto(data, addr): the payload and address are handed over.
transport_sendto(data, addr) ==
    sent' = Append(sent, [data |-> data, addr |-> addr])

\* -------------------------------------------------------------- Socket

\* Socket.close()
close ==
    /\ made
    /\ transport_close
    /\ closes' = [closes EXCEPT !.user = TRUE]
    /\ UNCHANGED <<protoVars, made, lost, sent, scope, histVars>>

\* A sendto that reports a failed send at once, through the mailbox.
sendto_sync_error(data, addr) ==
    /\ made
    /\ Len(sent) < MaxSends
    /\ transport_sendto(data, addr)
    /\ _error' = Exc("e1")
    /\ UNCHANGED <<_packets, _getters, task, made, closing, lost, scopeVars,
                   histVars>>

\* Socket.sendto(data, addr=None)
sendto(data, addr) ==
    /\ made
    /\ Len(sent) < MaxSends
    /\ transport_sendto(data, addr)
    /\ UNCHANGED <<protoVars, made, closing, lost, scopeVars, histVars>>

\* A getsockname that also resets the protocol's error slot.
getsockname_clears ==
    /\ made
    /\ _error' = None
    /\ UNCHANGED <<_packets, _getters, task, transportVars, scopeVars,
                   histVars>>

\* Socket.getsockname, lines 85-92: the local address is read from the
\* transport's extra info and returned; nothing is changed.
getsockname ==
    /\ made
    /\ UNCHANGED vars

\* Socket.__aenter__: returns self.
__aenter__ ==
    /\ made
    /\ scope.state = "none"
    /\ scope' = [state |-> "body", path |-> "none"]
    /\ UNCHANGED <<protoVars, transportVars, closes, histVars>>

\* The ways control leaves the body of an async-with block; each one hands
\* its exc_info to __aexit__.
ExitPaths == {"return", "exception", "cancel"}

\* An __aexit__ that closes only when the body ended without an exception.
__aexit__clean_only(path) ==
    /\ scope.state = "body"
    /\ closing' = (closing \/ path = "return")
    /\ closes' = [closes EXCEPT !.aexit = IF path = "return" THEN @ + 1 ELSE @]
    /\ scope' = [state |-> "exited", path |-> path]
    /\ UNCHANGED <<protoVars, made, lost, sent, histVars>>

\* Socket.__aexit__(*exc_info): calls close() and returns None, so an
\* exception of the body propagates.
__aexit__(path) ==
    /\ scope.state = "body"
    /\ transport_close
    /\ closes' = [closes EXCEPT !.aexit = @ + 1]
    /\ scope' = [state |-> "exited", path |-> path]
    /\ UNCHANGED <<protoVars, made, lost, sent, histVars>>

\* ------------------------------------------------------------ recvfrom

\* A Socket.recvfrom that turns whatever the adapter raises into ClosedError.
Socket_recvfrom_wrap(r) ==
    IF r.kind = "raise" \/ (r.kind = "return" /\ r.val = None)
    THEN [kind |-> "raise", val |-> ClosedError]
    ELSE [kind |-> r.kind, val |-> r.val]

\* Socket.recvfrom, lines 78-83: what the caller gets for the adapter's
\* result r (a returned queue item, or a raised exception).
Socket_recvfrom(r) ==
    IF r.kind = "return" /\ r.val = None
    THEN [kind |-> "raise", val |-> ClosedError]
    ELSE [kind |-> r.kind, val |-> r.val]

\* The recvfrom() call of task t completes: r is what
\* _SocketProtocol.recvfrom returned or raised, src where it came from
\* ("queue", "mailbox" or "none"). The history keeps whether the call was
\* suspended before it completed.
Finish(t, tk, r, src) ==
    /\ task' = [tk EXCEPT ![t] = Idle]
    /\ outcomes' = Append(outcomes,
                          [task |-> t, src |-> src, inner |-> r,
                           outer |-> Socket_recvfrom(r),
                           waited |-> task[t].pc = "suspended"])

\* A get() that hands out the head of the queue and leaves it there.
get_peek(t, tk, getters) ==
    IF _packets = <<>>
    THEN /\ _getters' = Append(getters, t)
         /\ task' = [tk EXCEPT ![t] = Parked]
         /\ UNCHANGED <<_packets, outcomes>>
    ELSE /\ _packets' = _packets
         /\ _getters' = getters
         /\ Finish(t, tk, [kind |-> "return", val |-> Head(_packets)], "queue")

\* `await asyncio.wait_for(self._packets.get(), ...)` entered by task t and
\* `return tr`: Queue.get() takes the head of a non-empty queue at once,
\* and parks a new getter on an empty one.
get(t, tk, getters) ==
    IF _packets = <<>>
    THEN /\ _getters' = Append(getters, t)
         /\ task' = [tk EXCEPT ![t] = Parked]
         /\ UNCHANGED <<_packets, outcomes>>
    ELSE /\ _packets' = Tail(_packets)
         /\ _getters' = getters
         /\ Finish(t, tk, [kind |-> "return", val |-> Head(_packets)], "queue")

\* A task calls Socket.recvfrom() and runs up to its first suspension.
Call(t) ==
    /\ made
    /\ task[t].pc = "idle"
    /\ ncalls < MaxCalls
    /\ ncalls' = ncalls + 1
    /\ get(t, task, _getters)
    /\ UNCHANGED <<_error, transportVars, scopeVars, enqueued, reported>>

\* What Task.cancel() does to the getter future the task waits on: a pending
\* future is cancelled, a future that already has its result stays done.
CancelGetter(g) == IF g = "pending" THEN "cancelled" ELSE g

\* The timeout=0.6 of wait_for expires while the task is suspended.
Timer(t) ==
    /\ task[t].pc = "suspended"
    /\ task[t].intr = "none"
    /\ task' = [task EXCEPT ![t].intr = "timeout",
                            ![t].getter = CancelGetter(@)]
    /\ UNCHANGED <<_packets, _getters, _error, transportVars, scopeVars,
                   histVars>>

\* Another task cancels the task suspended in recvfrom(); an outside
\* cancellation wins over a timeout that has fired but was not yet seen.
Cancel(t) ==
    /\ task[t].pc = "suspended"
    /\ task[t].intr # "cancel"
    /\ task' = [task EXCEPT ![t].intr = "cancel",
                            ![t].getter = CancelGetter(@)]
    /\ UNCHANGED <<_packets, _getters, _error, transportVars, scopeVars,
                   enqueued, reported, outcomes, ncalls>>

\* The `except:` clause of Queue.get(): the getter is removed from the deque
\* and, if it had been woken for an item that is still there, the wake-up
\* is passed on.
GetCancelled(t) ==
    LET rest == SelectSeq(_getters, LAMBDA x : x # t) IN
    IF _packets # <<>> /\ task[t].getter = "result"
    THEN _wakeup_next(rest, task)
    ELSE [getters |-> rest, task |-> task]

\* A timeout handler that raises the stored error and throws away the
\* element at the head of the queue.
OnTimeout_pop(t, w) ==
    IF Truthy(_error)
    THEN /\ _error' = None
         /\ _getters' = w.getters
         /\ Finish(t, w.task, [kind |-> "raise", val |-> _error], "mailbox")
         /\ _packets' = IF _packets = <<>> THEN _packets ELSE Tail(_packets)
    ELSE /\ get(t, w.task, w.getters)
         /\ UNCHANGED _error

\* A timeout handler that lets the TimeoutError out when nothing is stored.
OnTimeout_raise(t, w) ==
    IF Truthy(_error)
    THEN /\ _error' = None
         /\ _getters' = w.getters
         /\ Finish(t, w.task, [kind |-> "raise", val |-> _error], "mailbox")
         /\ UNCHANGED _packets
    ELSE /\ _getters' = w.getters
         /\ Finish(t, w.task, [kind |-> "raise", val |-> Exc("TimeoutError")],
                   "none")
         /\ UNCHANGED <<_packets, _error>>

\* A timeout handler that empties the mailbox without raising what it held.
OnTimeout_swallow(t, w) ==
    /\ _error' = None
    /\ get(t, w.task, w.getters)

\* A timeout handler that raises the stored error and keeps it stored.
OnTimeout_keep(t, w) ==
    IF Truthy(_error)
    THEN /\ _error' = _error
         /\ _getters' = w.getters
         /\ Finish(t, w.task, [kind |-> "raise", val |-> _error], "mailbox")
         /\ UNCHANGED _packets
    ELSE /\ get(t, w.task, w.getters)
         /\ UNCHANGED _error

\* `except asyncio.TimeoutError:` of _SocketProtocol.recvfrom, lines 33-37:
\* a stored error is taken from the mailbox and raised; otherwise the loop
\* waits again.
OnTimeout(t, w) ==
    IF Truthy(_error)
    THEN /\ _error' = None
         /\ _getters' = w.getters
         /\ Finish(t, w.task, [kind |-> "raise", val |-> _error], "mailbox")
         /\ UNCHANGED _packets
    ELSE /\ get(t, w.task, w.getters)
         /\ UNCHANGED _error

\* A cancellation that throws away the item the task had been woken for.
OnCancelled_lossy(t, w) ==
    /\ _getters' = w.getters
    /\ Finish(t, w.task, [kind |-> "cancelled", val |-> None], "none")
    /\ _packets' = IF _packets = <<>> THEN _packets ELSE Tail(_packets)
    /\ UNCHANGED _error

\* CancelledError leaves _SocketProtocol.recvfrom and Socket.recvfrom: no
\* clause of either catches it.
OnCancelled(t, w) ==
    /\ _getters' = w.getters
    /\ Finish(t, w.task, [kind |-> "cancelled", val |-> None], "none")
    /\ UNCHANGED <<_packets, _error>>

\* The event loop resumes a task whose getter future is done.
Resume(t) ==
    /\ task[t].pc = "suspended"
    /\ task[t].getter \in {"result", "cancelled"}
    /\ CASE task[t].intr = "none" ->
              /\ get(t, task, _getters)
              /\ UNCHANGED _error
         [] task[t].intr = "cancel" ->
              OnCancelled(t, GetCancelled(t))
         [] task[t].intr = "timeout" ->
              OnTimeout(t, GetCancelled(t))
    /\ UNCHANGED <<transportVars, scopeVars, enqueued, reported, ncalls>>

\* ---------------------------------------------------------- the system

\* The event loop's callbacks into the protocol.
Reactor ==
    \/ connection_made
    \/ connection_lost
    \/ \E d \in Datagrams : datagram_received(d[1], d[2])
    \/ \E exc \in TransportErrors : error_received(exc)

\* The tasks of T call recvfrom() and are run by the event loop.
Consumers(T) ==
    \/ \E t \in T : Call(t)
    \/ \E t \in T : Timer(t)
    \/ \E t \in T : Resume(t)

\* Several tasks receive from one socket, any of them may be cancelled and
\* the socket may be closed under them.
Next ==
    \/ Reactor
    \/ Consumers(Tasks)
    \/ \E t \in Tasks : Cancel(t)
    \/ close

Spec == Init /\ [][Next]_vars

\* One task sends and receives on the socket.
NextSend ==
    \/ Reactor
    \/ Consumers({"t1"})
    \/ \E data \in Payloads, addr \in Addrs \cup {NoAddr} : sendto(data, addr)

SpecSend == Init /\ [][NextSend]_vars

\* One task receives inside an async-with block over the socket.
NextScope ==
    \/ Reactor
    \/ Consumers({"t1"})
    \/ close
    \/ __aenter__
    \/ \E path \in ExitPaths : __aexit__(path)

SpecScope == Init /\ [][NextScope]_vars

\* One task receives while the socket is closed under it. The event loop
\* runs every callback that is ready: a task whose future is done is
\* resumed, a timer that is armed fires, and connection_lost follows
\* transport.close().
NextLive ==
    \/ Reactor
    \/ Consumers({"t1"})
    \/ close

Fairness ==
    /\ WF_vars(Resume("t1"))
    /\ WF_vars(Timer("t1"))
    /\ WF_vars(closing /\ connection_lost)

SpecLive == Init /\ [][NextLive]_vars /\ Fairness

\* One task sends, receives and asks for the local address while the
\* socket may be closed under it.
NextFrame ==
    \/ Reactor
    \/ Consumers({"t1"})
    \/ \E data \in Payloads, addr \in Addrs \cup {NoAddr} : sendto(data, addr)
    \/ close
    \/ getsockname

SpecFrame == Init /\ [][NextFrame]_vars

TypeOK ==
    /\ \A i \in 1..Len(_packets) : _packets[i] \in Packets \cup {None}
    /\ \A i \in 1..Len(_getters) : _getters[i] \in Tasks
    /\ _error \in TransportErrors \cup {None}
    /\ \A t \in Tasks :
         /\ task[t].pc \in {"idle", "suspended"}
         /\ task[t].getter \in {"none", "pending", "result", "cancelled"}
         /\ task[t].intr \in {"none", "timeout", "cancel"}
    /\ made \in BOOLEAN /\ closing \in BOOLEAN /\ lost \in BOOLEAN

\* ------------------------------------------------------------- helpers

Last(q) == q[Len(q)]

Returned(x) == [kind |-> "return", val |-> x]

Raised(x) == [kind |-> "raise", val |-> x]

\* The completed calls that took an item from the queue, in order.
Dequeued == SelectSeq(outcomes, LAMBDA o : o.src = "queue")

\* How often recvfrom() raised the transport error named e.
TimesRaised(e) ==
    Len(SelectSeq(outcomes, LAMBDA o : o.outer = Raised(Exc(e))))

\* A step in which some task calls recvfrom().
CallStep == ncalls' = ncalls + 1

\* A step in which exactly one recvfrom() call completes.
Completes == Len(outcomes') = Len(outcomes) + 1

\* A call on a non-empty queue completes at once with the head of the
\* queue and removes it.
CallTakesHead ==
    (CallStep /\ _packets # <<>>) =>
        /\ Completes
        /\ outcomes' = Append(outcomes, Last(outcomes'))
        /\ Last(outcomes').src = "queue"
        /\ Last(outcomes').inner = Returned(Head(_packets))
        /\ ~Last(outcomes').waited
        /\ _packets' = Tail(_packets)

\* An item never sits in the queue while every task in recvfrom() sleeps
\* on a getter nobody will wake.
NoStuckItem ==
    (_packets # <<>> /\ \E t \in Tasks : task[t].getter = "pending")
        => \E t \in Tasks : task[t].getter \in {"result", "cancelled"}

\* -------------------------------------------------------------- claims

\* The i-th call that took an item from the queue took the i-th item the
\* callbacks enqueued, and returned it if it is a datagram.
FifoOrder ==
    /\ Len(Dequeued) <= Len(enqueued)
    /\ \A i \in 1..Len(Dequeued) :
         /\ Dequeued[i].inner = Returned(enqueued[i])
         /\ enqueued[i] \in Packets =>
                Dequeued[i].outer = Returned(enqueued[i])

\* C1: FIFO delivery. The items recvfrom() calls take from the queue are the
\* items the callbacks enqueued, in callback order; a datagram is returned
\* as the (payload, address) pair of its own callback; and a call made
\* while items are queued completes at once with the oldest one, so N
\* datagrams that arrived before any receive are returned by N successive
\* calls in arrival order.
C1_FifoDelivery == []FifoOrder /\ [][CallTakesHead]_vars

\* Two different datagrams arrived, two recvfrom() calls of one task found
\* them queued, neither waited, and they returned them in arrival order.
C1_Witness ==
    /\ Len(outcomes) = 2
    /\ Len(enqueued) = 2
    /\ enqueued[1] # enqueued[2]
    /\ \A i \in 1..2 :
         /\ ~outcomes[i].waited
         /\ outcomes[i].task = "t1"
         /\ outcomes[i].outer = Returned(enqueued[i])

\* C2: closure is permanent. Once a recvfrom() has raised ClosedError, every
\* later recvfrom() that is not cancelled raises ClosedError too, and none
\* is left suspended with nothing that could ever complete it.
C2_ClosurePermanent ==
    /\ \A i, j \in 1..Len(outcomes) :
         (i < j /\ outcomes[i].outer = Raised(ClosedError)
                /\ outcomes[j].outer.kind # "cancelled")
            => outcomes[j].outer = Raised(ClosedError)
    /\ \A t \in Tasks :
         ((\E i \in 1..Len(outcomes) : outcomes[i].outer = Raised(ClosedError))
             /\ task[t].pc = "suspended")
            => (_packets # <<>> \/ Truthy(_error))

\* What is raised from the mailbox is a reported exception, unwrapped, and
\* no exception is raised more often than it was reported.
RaisedAsReported ==
    /\ \A i \in 1..Len(outcomes) :
         outcomes[i].src = "mailbox" =>
            /\ outcomes[i].inner.val \in TransportErrors
            /\ outcomes[i].outer = Raised(outcomes[i].inner.val)
    /\ \A e \in Excs : TimesRaised(e) <= reported[e]

\* Task t is resumed after its queue wait timed out.
TimeoutSeen(t) ==
    /\ task[t].pc = "suspended"
    /\ task[t].intr = "timeout"
    /\ task'[t] # task[t]
    /\ task'[t].intr # "cancel"

\* A timed-out call that finds an error stored raises it, empties the
\* mailbox and takes nothing from the queue.
ErrorTakenOnTimeout ==
    \A t \in Tasks :
        (TimeoutSeen(t) /\ Truthy(_error)) =>
            /\ Completes
            /\ Last(outcomes').task = t
            /\ Last(outcomes').src = "mailbox"
            /\ Last(outcomes').outer = Raised(_error)
            /\ _error' = None
            /\ _packets' = _packets

\* C3: single delivery of a transport error. A recvfrom() that raises from
\* the mailbox raises exactly the stored exception, unwrapped; a timed-out
\* call that finds an error stored raises it, empties the mailbox and takes
\* nothing from the queue; and no exception is raised more often than it
\* was reported, so the next call does not raise it again.
C3_SingleErrorDelivery == []RaisedAsReported /\ [][ErrorTakenOnTimeout]_vars

\* e1 was reported once while the queue was empty; the first call waited
\* and raised it, the mailbox is empty, and the second call has waited a
\* whole poll interval without raising.
C3_Witness ==
    /\ reported["e1"] = 1 /\ reported["e2"] = 0
    /\ enqueued = <<>>
    /\ Len(outcomes) = 1
    /\ outcomes[1].outer = Raised(Exc("e1"))
    /\ outcomes[1].task = "t1"
    /\ _error = None
    /\ task["t1"].pc = "suspended"
    /\ task["t1"].intr = "timeout"

\* The calls that dequeued took the enqueued items one each, in order, and
\* the queue holds the rest.
ExactlyOnce ==
    /\ FifoOrder
    /\ Len(Dequeued) + Len(_packets) = Len(enqueued)
    /\ \A i \in 1..Len(_packets) :
         _packets[i] = enqueued[Len(Dequeued) + i]

\* C4: concurrent consumers. With any number of tasks in recvfrom(), every
\* enqueued item is either still queued or was handed to exactly one call
\* (the calls that dequeued took the enqueued items one each, the queue
\* holds the rest), and a queued item always has a task on its way to take
\* it.
C4_ConcurrentConsumers == ExactlyOnce /\ NoStuckItem

\* Two tasks were waiting, one datagram arrived: one task returned it and
\* the other is still suspended.
C4_Witness ==
    /\ ncalls = 2
    /\ Len(enqueued) = 1
    /\ Len(outcomes) = 1
    /\ outcomes[1].waited
    /\ outcomes[1].outer = Returned(enqueued[1])
    /\ \E t \in Tasks :
         /\ t # outcomes[1].task
         /\ task[t].pc = "suspended"
         /\ task[t].getter = "pending"

\* A step that cancels task t, suspended in recvfrom().
CancelRequested(t) ==
    task[t].intr # "cancel" /\ task'[t].intr = "cancel"

\* A step in which the cancelled task t is resumed.
CancelDelivered(t) ==
    task[t].intr = "cancel" /\ task'[t] # task[t]

\* Cancelling leaves the queue and the mailbox alone and ends the call.
CancelKeepsState ==
    \A t \in Tasks :
        /\ (CancelRequested(t) \/ CancelDelivered(t)) =>
              /\ _packets' = _packets
              /\ _error' = _error
              /\ enqueued' = enqueued
        /\ CancelDelivered(t) =>
              /\ Completes
              /\ Last(outcomes').task = t
              /\ Last(outcomes').outer.kind = "cancelled"
              /\ task'[t] = Idle

\* C5: cancellation safety. Neither the request to cancel a task suspended
\* in recvfrom() nor the delivery of the cancellation changes the queue or
\* the mailbox; the cancelled call ends with CancelledError; a queued item
\* is never left without a task to take it, and the next call made on a
\* non-empty queue returns its head.
C5_CancellationSafety ==
    []NoStuckItem /\ [][CancelKeepsState /\ CallTakesHead]_vars

\* A call was cancelled, an error is stored, and the next call found the
\* first datagram queued and returned it without waiting.
C5_Witness ==
    /\ Len(outcomes) = 2
    /\ outcomes[1].outer.kind = "cancelled"
    /\ ~outcomes[2].waited
    /\ outcomes[2].outer = Returned(enqueued[1])
    /\ Truthy(_error)

\* C6: Socket.recvfrom() raises ClosedError exactly for the calls that
\* dequeued the sentinel. A call that dequeued a datagram returns that
\* datagram, no call returns the sentinel, and an error taken from the
\* mailbox is raised as the exception that was reported, never as
\* ClosedError.
C6_ClosedErrorIffSentinel ==
    /\ FifoOrder
    /\ \A i \in 1..Len(Dequeued) :
         (Dequeued[i].outer = Raised(ClosedError)) <=> (enqueued[i] = None)
    /\ \A i \in 1..Len(outcomes) :
         /\ outcomes[i].outer = Raised(ClosedError) => outcomes[i].src = "queue"
         /\ outcomes[i].outer.kind = "return" =>
               /\ outcomes[i].src = "queue"
               /\ outcomes[i].outer.val \in Packets
         /\ outcomes[i].src = "mailbox" =>
               /\ outcomes[i].outer.kind = "raise"
               /\ outcomes[i].outer.val \in TransportErrors
               /\ outcomes[i].outer.val # ClosedError

\* One call dequeued the sentinel and raised ClosedError, another took an
\* error from the mailbox and raised that error.
C6_Witness ==
    /\ Len(outcomes) = 2
    /\ \E i, j \in 1..2 :
         /\ outcomes[i].outer = Raised(ClosedError)
         /\ outcomes[i].src = "queue"
         /\ outcomes[j].src = "mailbox"
         /\ outcomes[j].outer \in {Raised(x) : x \in TransportErrors}

\* The k-th recvfrom() call of the single consumer is suspended on an empty
\* queue, close() has been called and the connection_lost it asks for is
\* still to come.
WaitingAtClose(k) ==
    /\ ncalls = k
    /\ task["t1"].pc = "suspended"
    /\ _packets = <<>>
    /\ closing
    /\ ~lost

\* The k-th call has raised ClosedError.
RaisedClosed(k) ==
    /\ Len(outcomes) >= k
    /\ outcomes[k].outer = Raised(ClosedError)

\* The k-th call has raised an error it took from the mailbox.
RaisedStored(k) ==
    /\ Len(outcomes) >= k
    /\ outcomes[k].src = "mailbox"

\* Socket.close() only asks the transport to close: the step that calls it
\* does not run connection_lost, enqueues nothing and completes no call.
CloseReturnsAtOnce ==
    (~closing /\ closing') =>
        /\ lost' = lost
        /\ _packets' = _packets
        /\ outcomes' = outcomes
        /\ task' = task

\* The k-th call completes in this step, having waited since close().
CompletesAtClose(k) ==
    /\ WaitingAtClose(k)
    /\ Len(outcomes) < k
    /\ Len(outcomes') >= k

\* C7 as stated: close wakes a waiting receiver. A recvfrom() that is
\* suspended on an empty queue when close() has been called eventually
\* raises ClosedError, so whatever completes it is ClosedError.
C7_CloseWakesReceiver ==
    /\ \A k \in 1..MaxCalls : WaitingAtClose(k) ~> RaisedClosed(k)
    /\ [][\A k \in 1..MaxCalls :
             CompletesAtClose(k) => outcomes'[k].outer = Raised(ClosedError)]_vars

\* C7 amended: a recvfrom() that is suspended on an empty queue when close()
\* has been called eventually completes by raising: ClosedError, or the
\* transport error it finds stored in the mailbox when its queue wait
\* times out; it raises ClosedError if no error is ever reported. close()
\* itself returns before connection_lost runs.
C7_CloseCompletesReceiver ==
    /\ \A k \in 1..MaxCalls :
         WaitingAtClose(k) ~> (RaisedClosed(k) \/ RaisedStored(k))
    /\ \A k \in 1..MaxCalls :
         (WaitingAtClose(k) /\ NReported = 0)
             ~> (RaisedClosed(k) \/ NReported > 0)
    /\ [][\A k \in 1..MaxCalls :
             CompletesAtClose(k) =>
                 \/ outcomes'[k].outer = Raised(ClosedError)
                 \/ /\ Truthy(_error)
                    /\ outcomes'[k].outer = Raised(_error)]_vars
    /\ [][CloseReturnsAtOnce]_vars

\* The first call waited on an empty queue, the socket was closed under it
\* with no error reported, and the call raised ClosedError.
C7_Witness ==
    /\ closing /\ lost
    /\ closes.user
    /\ NReported = 0
    /\ enqueued = <<None>>
    /\ Len(outcomes) = 1
    /\ outcomes[1].waited
    /\ outcomes[1].outer = Raised(ClosedError)

\* C8: scoped use. __aexit__ has called close() exactly once when the
\* async-with block has been left, whichever way the body ended, and not
\* before; entering the block does not close the transport.
C8_ScopedClose ==
    /\ scope.state \in {"none", "body"} => closes.aexit = 0
    /\ scope.state = "exited" => (closes.aexit = 1 /\ closing)
    /\ closing => (closes.user \/ closes.aexit > 0)

\* The body was cancelled and nobody else closed the socket: __aexit__
\* closed it, once.
C8_Witness ==
    /\ scope.state = "exited"
    /\ scope.path = "cancel"
    /\ ~closes.user
    /\ closes.aexit = 1
    /\ closing

\* A step that sends hands one (payload, address) to the transport and
\* changes nothing else.
SendStep ==
    (sent' # sent) =>
        /\ \E data \in Payloads, addr \in Addrs \cup {NoAddr} :
              sent' = Append(sent, [data |-> data, addr |-> addr])
        /\ UNCHANGED <<_packets, _getters, _error, task, enqueued, reported,
                       outcomes, made, closing, lost>>

\* An error is stored or raised only after the reactor reported it.
ErrorsOnlyFromReactor ==
    /\ Truthy(_error) => NReported > 0
    /\ \A e \in Excs : TimesRaised(e) <= reported[e]

Pending == IF Truthy(_error) THEN 1 ELSE 0

\* How many calls raised an error taken from the mailbox.
NRaised == Len(SelectSeq(outcomes, LAMBDA o : o.src = "mailbox"))

\* A step in which error_received runs.
ReportStep == NReported' = NReported + 1

\* An error leaves the mailbox unraised only when error_received stores
\* another one over it: a step that reports nothing keeps the errors raised
\* plus the error stored, and a step that reports leaves one stored and
\* raises none.
ErrorLeavesOnlyRaised ==
    /\ NReported' = NReported => NRaised' + Pending' = NRaised + Pending
    /\ ReportStep => Pending' = 1 /\ NRaised' = NRaised

\* C11 as stated: every reported error is surfaced exactly once, so at
\* every state each reported error has either been raised once or is the
\* one still stored for the next timed-out call.
C11_EveryErrorOnce ==
    \A e \in Excs :
        reported[e] = TimesRaised(e) + (IF _error = Exc(e) THEN 1 ELSE 0)

\* C11: every reported error is surfaced at most once. It is dropped
\* without being surfaced only when a later error_received replaces it
\* while it is still stored; otherwise it stays in the mailbox until a
\* timed-out recvfrom() raises it once and empties the mailbox.
C11_ErrorOnceUnlessReplaced ==
    /\ [](\A e \in Excs :
            TimesRaised(e) + (IF _error = Exc(e) THEN 1 ELSE 0) <= reported[e])
    /\ [](NRaised + Pending <= NReported)
    /\ [][ErrorLeavesOnlyRaised]_vars

\* e1 was reported twice before any timeout; one call raised it once, the
\* mailbox is empty and the next call has timed out with nothing to raise.
C11_Witness ==
    /\ reported["e1"] = 2 /\ reported["e2"] = 0
    /\ TimesRaised("e1") = 1
    /\ Len(outcomes) = 1
    /\ _error = None
    /\ enqueued = <<>>
    /\ ncalls = 2
    /\ \E t \in Tasks : task[t].pc = "suspended" /\ task[t].intr = "timeout"

\* A step in which the recvfrom() call of task t completes.
FinishedBy(t) == Completes /\ Last(outcomes').task = t

\* A call that is waiting while an error is stored completes by raising
\* that error, whatever is enqueued in the meantime: only the wait in
\* progress can time out within one poll interval of the report.
ErrorEndsWait ==
    \A t \in Tasks :
        (task[t].pc = "suspended" /\ Truthy(_error) /\ FinishedBy(t)) =>
            Last(outcomes').outer = Raised(_error)

\* C12: bounded error delay. Queue events are delivered in callback order,
\* and an error stored while the consumer waits in recvfrom() is raised by
\* that wait, at its timeout, whatever datagram or closure events are
\* enqueued before the timeout.
C12_BoundedErrorDelay == []FifoOrder /\ [][ErrorEndsWait]_vars

\* error_received completes no call, wakes no task and touches no queue.
ErrorWakesNobody ==
    ReportStep => /\ task' = task
                  /\ _getters' = _getters
                  /\ outcomes' = outcomes
                  /\ _packets' = _packets

\* A call that gets an element from the queue completes with that element
\* and leaves the mailbox as it was.
DequeueLeavesMailbox ==
    (Completes /\ Last(outcomes').src = "queue") =>
        /\ _packets # <<>>
        /\ Last(outcomes').inner = Returned(Head(_packets))
        /\ _error' = _error

\* A call raises from the mailbox only when it is resumed after its queue
\* wait timed out.
ErrorOnlyOnTimeout ==
    \A t \in Tasks :
        (FinishedBy(t) /\ Last(outcomes').src = "mailbox") =>
            /\ task[t].pc = "suspended"
            /\ task[t].intr = "timeout"

\* C13: an error is observed only on a queue-wait timeout. error_received
\* neither completes nor wakes a pending recvfrom(); a recvfrom() that gets
\* an element from the queue returns it (a datagram or the marker) and
\* leaves the mailbox as it was, so a stored error stays stored; and a
\* call raises from the mailbox only after its wait timed out.
C13_ErrorOnlyOnTimeout ==
    [][ErrorWakesNobody /\ DequeueLeavesMailbox /\ ErrorOnlyOnTimeout]_vars

\* e1 was reported before the connection was lost; two calls then took the
\* datagram and the marker from the queue, the second after waiting, and
\* e1 is still stored.
C13_Witness ==
    /\ reported["e1"] = 1 /\ reported["e2"] = 0
    /\ _error = Exc("e1")
    /\ lost
    /\ Len(enqueued) = 2
    /\ Len(outcomes) = 2
    /\ outcomes[1].outer = Returned(enqueued[1])
    /\ outcomes[2].outer = Raised(ClosedError)
    /\ outcomes[2].waited
    /\ \A t \in Tasks : task[t].pc = "idle"

\* error_received(e) leaves e in the mailbox, whatever was stored.
LastWriteWins ==
    \A e \in Excs :
        reported'[e] = reported[e] + 1 => _error' = Exc(e)

\* A call that raises from the mailbox raises what is stored and leaves
\* the mailbox empty.
RaiseEmptiesMailbox ==
    (Completes /\ Last(outcomes').src = "mailbox") =>
        /\ Truthy(_error)
        /\ Last(outcomes').outer = Raised(_error)
        /\ _error' = None

\* C14: single-slot mailbox. The mailbox holds nothing or one reported
\* error at every state; error_received(e2) leaves e2 stored even while an
\* unconsumed e1 is stored (last write wins); and the call that next raises
\* from the mailbox raises what is stored and leaves the mailbox empty.
C14_SingleSlotLastWins ==
    /\ [](_error \in TransportErrors \cup {None})
    /\ [](\A e \in Excs : _error = Exc(e) => reported[e] > 0)
    /\ [][LastWriteWins /\ RaiseEmptiesMailbox]_vars

\* e1 and then e2 were reported before any timeout; the one call that
\* raised has raised e2, e1 was never raised and the mailbox is empty.
C14_Witness ==
    /\ reported["e1"] = 1 /\ reported["e2"] = 1
    /\ Len(outcomes) = 1
    /\ outcomes[1].src = "mailbox"
    /\ outcomes[1].outer = Raised(Exc("e2"))
    /\ TimesRaised("e1") = 0
    /\ _error = None

\* A call that returns or raises does so by taking the head of the queue,
\* or by taking the stored error after its wait timed out.
CompletesOnlyWithCause ==
    \A t \in Tasks :
        (FinishedBy(t) /\ Last(outcomes').outer.kind # "cancelled") =>
            \/ /\ _packets # <<>>
               /\ Last(outcomes').src = "queue"
               /\ _packets' = Tail(_packets)
               /\ _error' = _error
            \/ /\ Truthy(_error)
               /\ Last(outcomes').src = "mailbox"
               /\ task[t].intr = "timeout"
               /\ _error' = None
               /\ _packets' = _packets

\* A call whose wait timed out with the queue and the mailbox empty waits
\* again on a new getter.
TimeoutResumesWait ==
    \A t \in Tasks :
        (TimeoutSeen(t) /\ ~Truthy(_error) /\ _packets = <<>>) =>
            /\ outcomes' = outcomes
            /\ task'[t] = Parked
            /\ Last(_getters') = t
            /\ _error' = _error

\* C15: no spurious completion. A recvfrom() call that is not cancelled
\* returns or raises only by dequeuing an element or by taking a stored
\* error when its wait has timed out, so never while the queue and the
\* mailbox are both empty; on a timeout with both empty it waits again.
C15_NoSpuriousCompletion ==
    [][CompletesOnlyWithCause /\ TimeoutResumesWait]_vars

\* Nothing was ever enqueued or reported; the one call made has waited a
\* whole poll interval, its timer has fired, and it has not completed.
C15_Witness ==
    /\ enqueued = <<>>
    /\ NReported = 0
    /\ ncalls = 1
    /\ outcomes = <<>>
    /\ task["t1"].pc = "suspended"
    /\ task["t1"].intr = "timeout"
    /\ task["t1"].getter = "cancelled"

\* The k-th call, made by the one consumer, is suspended and datagram d,
\* which arrived while it waited, is at the head of the queue.
WokenFor(k, d) ==
    /\ ncalls = k
    /\ Len(outcomes) = k - 1
    /\ task["t1"].pc = "suspended"
    /\ _packets # <<>>
    /\ Head(_packets) = d

\* The k-th call has returned datagram d.
ReturnedTo(k, d) ==
    /\ Len(outcomes) >= k
    /\ outcomes[k].outer = Returned(d)

\* The k-th call has raised an error taken from the mailbox.
RaisedFromMailbox(k) ==
    /\ Len(outcomes) >= k
    /\ outcomes[k].src = "mailbox"

\* The suspended call completes by returning the datagram that arrived.
WokenReturnsDatagram ==
    \A d \in Packets :
        (task["t1"].pc = "suspended" /\ _packets # <<>> /\ Head(_packets) = d
            /\ FinishedBy("t1"))
          => Last(outcomes').outer = Returned(d)

\* The suspended call completes by returning the datagram that arrived,
\* or, when its timer fired before it was resumed and an error is stored,
\* by raising that error and leaving the datagram at the head of the queue.
WokenReturnsOrRaises ==
    \A d \in Packets :
        (task["t1"].pc = "suspended" /\ _packets # <<>> /\ Head(_packets) = d
            /\ FinishedBy("t1"))
          => \/ /\ Last(outcomes').outer = Returned(d)
                /\ _packets' = Tail(_packets)
                /\ (task["t1"].intr = "none" \/ ~Truthy(_error))
             \/ /\ task["t1"].intr = "timeout"
                /\ Truthy(_error)
                /\ Last(outcomes').outer = Raised(_error)
                /\ _packets' = _packets

\* C16 as stated: a call of the one consumer that is suspended when a
\* datagram arrives eventually returns that datagram, whether or not an
\* error is stored.
C16_ReceiveLiveness ==
    /\ \A k \in 1..MaxCalls : \A d \in Packets :
           WokenFor(k, d) ~> ReturnedTo(k, d)
    /\ [][WokenReturnsDatagram]_vars

\* C16: receive liveness. A call of the one consumer that is suspended
\* when a datagram arrives eventually completes: it returns that datagram,
\* unless its queue wait timed out before the task was resumed and an
\* error is stored, in which case it raises the error and the datagram
\* stays at the head of the queue for the next call.
C16_ReceiveOrStoredError ==
    /\ \A k \in 1..MaxCalls : \A d \in Packets :
           WokenFor(k, d) ~> (ReturnedTo(k, d) \/ RaisedFromMailbox(k))
    /\ [][WokenReturnsOrRaises]_vars

\* The consumer's first call waited on the empty queue, a datagram arrived
\* and the call returned it; an error reported meanwhile is still stored.
C16_Witness ==
    /\ Len(enqueued) = 1
    /\ enqueued[1] \in Packets
    /\ Len(outcomes) = 1
    /\ outcomes[1].task = "t1"
    /\ outcomes[1].waited
    /\ outcomes[1].outer = Returned(enqueued[1])
    /\ _packets = <<>>
    /\ Truthy(_error)

\* The mailbox changes only when error_received stores the error it was
\* given, or when a call resumed after a timeout raises what was stored
\* and empties it.
MailboxWriters ==
    _error' # _error =>
        \/ /\ ReportStep
           /\ \E e \in Excs : reported'[e] = reported[e] + 1 /\ _error' = Exc(e)
           /\ outcomes' = outcomes
        \/ /\ \E t \in Tasks : TimeoutSeen(t) /\ FinishedBy(t)
           /\ Last(outcomes').src = "mailbox"
           /\ _error' = None
           /\ reported' = reported

\* connection_made, connection_lost, datagram_received, sendto, close and a
\* call that dequeues an element, each told by the state it changes, leave
\* the mailbox as it was.
MailboxFrame ==
    (\/ made' # made
     \/ lost' # lost
     \/ enqueued' # enqueued
     \/ sent' # sent
     \/ closing' # closing
     \/ closes' # closes
     \/ Completes /\ Last(outcomes').src = "queue")
        => _error' = _error

Delivered ==
    SelectSeq(outcomes, LAMBDA o : \/ o.outer.kind = "return"
                                   \/ o.outer = Raised(ClosedError))

\* A call that returns a datagram or raises ClosedError removes the head of
\* the queue and nothing else; a call that raises a transport error, and a
\* step that completes no call and enqueues nothing, remove nothing.
RemovesOnePerDelivery ==
    /\ (Completes /\ Len(Delivered') = Len(Delivered) + 1) =>
          /\ _packets # <<>>
          /\ _packets' = Tail(_packets)
          /\ enqueued' = enqueued
    /\ (Completes /\ Last(outcomes').outer \in {Raised(x) : x \in TransportErrors})
          => _packets' = _packets
    /\ (outcomes' = outcomes /\ enqueued' = enqueued) => _packets' = _packets

\* C18: queue conservation. Every completed recvfrom() removes exactly one
\* element from the queue when it returns a datagram or raises ClosedError
\* and none when it raises a transport error; so at every state the number
\* of elements the callbacks enqueued is the number delivered to recvfrom()
\* calls plus the length of the queue.
C18_QueueConservation ==
    /\ [](Len(enqueued) = Len(Delivered) + Len(_packets))
    /\ [][RemovesOnePerDelivery]_vars

\* Three elements were enqueued; one call returned a datagram, one raised
\* a transport error, and two elements are still queued.
C18_Witness ==
    /\ Len(enqueued) = 3
    /\ Len(outcomes) = 2
    /\ Len(Delivered) = 1
    /\ NRaised = 1
    /\ Len(_packets) = 2

====
